---- MODULE Spec2Model ----
(***************************************************************************)
(* Model of adafruit_ht16k33/ht16k33.py: the HT16K33 base class.  One      *)
(* controller object, its 17-byte frame buffer, its cached settings and    *)
(* the I2C transactions each call performs.  Every bus write may fail      *)
(* with a transport error (OSError), which aborts the running call.        *)
(***************************************************************************)
EXTENDS Integers, Sequences, FiniteSets, TLC

VARIABLES constructed, size, auto_write, buffer, temp, blink_rate, brightness,
          tx, result, ret, lastop, nops,
          lastFrame, lastBlinkCmd, lastBrightCmd

vars == <<constructed, size, auto_write, buffer, temp, blink_rate, brightness,
          tx, result, ret, lastop, nops,
          lastFrame, lastBlinkCmd, lastBrightCmd>>

obj == <<constructed, size, auto_write, buffer, temp, blink_rate, brightness>>

chip == <<lastFrame, lastBlinkCmd, lastBrightCmd>>

(* Number of calls explored in one behaviour (the constructor included). *)
MaxOps == 3

(* ---- program constants ---- *)
HT16K33_BLINK_CMD == 128
HT16K33_BLINK_DISPLAYON == 1
HT16K33_CMD_BRIGHTNESS == 224
HT16K33_OSCILATOR_ON == 33
BufferLen == 17
None == -1

(* ---- inputs ---- *)
Sizes == {<<16, 8>>, <<8, 8>>, <<24, 9>>}
Rates == {-1, 0, 2, 4}
Levels == {-1, 7, 15, 16}
BufferIndexes == {-1, 0, 15, 16}
ByteValues == {33, 255, 256}
PixelInputs(w, h) ==
    {<<-1, 0>>, <<0, -1>>, <<w, 0>>, <<0, h>>, <<w, h>>,
     <<0, 0>>, <<0, 1>>, <<w - 1, h - 1>>, <<w - 7, 1>>}

(* ---- integer bit operations of the source ---- *)
RECURSIVE BitAnd(_, _)
BitAnd(a, b) ==
    IF a = 0 \/ b = 0 THEN 0
    ELSE (a % 2) * (b % 2) + 2 * BitAnd(a \div 2, b \div 2)

RECURSIVE BitOr(_, _)
BitOr(a, b) ==
    IF a = 0 THEN b
    ELSE IF b = 0 THEN a
    ELSE (IF a % 2 = 1 \/ b % 2 = 1 THEN 1 ELSE 0) + 2 * BitOr(a \div 2, b \div 2)

(* a & ~m for non-negative a and m *)
RECURSIVE BitAndNot(_, _)
BitAndNot(a, m) ==
    IF a = 0 THEN 0
    ELSE (a % 2) * (1 - (m % 2)) + 2 * BitAndNot(a \div 2, m \div 2)

ShiftLeft(a, n) == a * (2 ^ n)

Max(S) == CHOOSE m \in S : \A k \in S : k <= m

(* ---- the bus ---- *)
(* One attempted transaction: the bytes handed to i2c_device.write and
   whether the transport accepted them. *)
BusWrite(payload, fail) == [payload |-> payload, ok |-> ~fail]

(* The transactions of a call that attempts the payloads ps in order and
   whose failAt-th write (0: none) raises. *)
Attempts(ps, failAt) ==
    IF failAt = 0 THEN [i \in 1..Len(ps) |-> BusWrite(ps[i], FALSE)]
    ELSE [i \in 1..failAt |-> BusWrite(ps[i], i = failAt)]

IsFrame(p) == Len(p) = BufferLen
IsBlinkCmd(p) == Len(p) = 1 /\ BitAnd(p[1], 240) = HT16K33_BLINK_CMD
IsBrightCmd(p) == Len(p) = 1 /\ BitAnd(p[1], 240) = HT16K33_CMD_BRIGHTNESS

(* What the chip holds after the transactions of log: the last frame and
   the last commands of each kind that were written successfully. *)
LastOkFrame(log, old) ==
    LET S == {i \in 1..Len(log) : log[i].ok /\ IsFrame(log[i].payload)}
    IN IF S = {} THEN old ELSE log[Max(S)].payload

LastOkBlink(log, old) ==
    LET S == {i \in 1..Len(log) : log[i].ok /\ IsBlinkCmd(log[i].payload)}
    IN IF S = {} THEN old ELSE log[Max(S)].payload[1]

LastOkBright(log, old) ==
    LET S == {i \in 1..Len(log) : log[i].ok /\ IsBrightCmd(log[i].payload)}
    IN IF S = {} THEN old ELSE log[Max(S)].payload[1]

Deliver(log) ==
    /\ tx' = log
    /\ lastFrame' = LastOkFrame(log, lastFrame)
    /\ lastBlinkCmd' = LastOkBlink(log, lastBlinkCmd)
    /\ lastBrightCmd' = LastOkBright(log, lastBrightCmd)

Failed(log) == \E i \in 1..Len(log) : ~log[i].ok

(* ---- pure parts of the methods ---- *)
Call(op, x, y, c, v) == [op |-> op, x |-> x, y |-> y, c |-> c, v |-> v]

BlinkRateValid_Off(rate) == 0 <= rate /\ rate <= 4

BlinkRateValid(rate) == 0 <= rate /\ rate <= 3

BlinkRateCached(rate) == BitAnd(rate, 3)

BlinkCommand(rate) ==
    BitOr(BitOr(HT16K33_BLINK_CMD, HT16K33_BLINK_DISPLAYON), ShiftLeft(rate, 1))

BrightnessValid(b) == 0 <= b /\ b <= 15

BrightnessCached(b) == BitAnd(b, 15)

BrightnessCommand(b) == BitOr(HT16K33_CMD_BRIGHTNESS, b)

FillByte(color) == IF color THEN 255 ELSE 0

(* fill: for i in range(16): self._buffer[i+1] = fill *)
FillBuffer(buf, color) ==
    [k \in 1..Len(buf) |-> IF k - 1 >= 1 /\ k - 1 <= 16 THEN FillByte(color) ELSE buf[k]]

ShowPayload_DataOnly(buf) == SubSeq(buf, 2, Len(buf))

(* show: the payload handed to the bus is the buffer itself *)
ShowPayload(buf) == buf

(* whether fill/_pixel end with self.show() *)
AutoShow(aw) == aw

XValid(x, sz) == 0 <= x /\ x < sz[1]

YValid(y, sz) == 0 <= y /\ y < sz[2]

Addr(x, y) == 2 * y + (x \div 8)

Mask(x) == ShiftLeft(1, x % 8)

(* Python indexing of a bytearray: a negative index counts from the end. *)
PyIndex(buf, k) == IF k < 0 THEN k + Len(buf) ELSE k

InRange(buf, k) == 0 <= PyIndex(buf, k) /\ PyIndex(buf, k) < Len(buf)

ByteAt(buf, k) == buf[PyIndex(buf, k) + 1]

StoreAt(buf, k, value) == [buf EXCEPT ![PyIndex(buf, k) + 1] = value]

PixelGet(buf, x, y) == BitAnd(ByteAt(buf, Addr(x, y) + 1), Mask(x)) # 0

PixelSet(buf, x, y, color) ==
    IF color
    THEN StoreAt(buf, Addr(x, y) + 1, BitOr(ByteAt(buf, Addr(x, y) + 1), Mask(x)))
    ELSE StoreAt(buf, Addr(x, y) + 1, BitAndNot(ByteAt(buf, Addr(x, y) + 1), Mask(x)))

BoolStr(b) == IF b THEN "True" ELSE "False"

(* outcome of _pixel's checks: "" when the access goes through *)
PixelError(buf, x, y, sz) ==
    IF ~XValid(x, sz) THEN "ValueError: X"
    ELSE IF ~YValid(y, sz) THEN "ValueError: Y"
    ELSE IF ~InRange(buf, Addr(x, y) + 1) THEN "IndexError"
    ELSE ""

(* what _pixel(x, y) returns or raises *)
GetPixelResult(buf, x, y, sz) ==
    IF PixelError(buf, x, y, sz) # "" THEN PixelError(buf, x, y, sz)
    ELSE BoolStr(PixelGet(buf, x, y))

(* ---- state ---- *)
Init ==
    /\ constructed = FALSE
    /\ size = <<16, 8>>
    /\ auto_write = TRUE
    /\ buffer = [k \in 1..BufferLen |-> 0]
    /\ temp = 0
    /\ blink_rate = None
    /\ brightness = None
    /\ tx = <<>>
    /\ result = "None"
    /\ ret = <<>>
    /\ lastop = Call("", 0, 0, FALSE, 0)
    /\ nops = 0
    /\ lastFrame = <<>>
    /\ lastBlinkCmd = None
    /\ lastBrightCmd = None

ConstructPayloads_Reordered(aw) ==
    (IF AutoShow(aw) THEN <<ShowPayload(FillBuffer([k \in 1..BufferLen |-> 0], FALSE))>> ELSE <<>>)
    \o << <<BlinkCommand(BlinkRateCached(0))>>, <<HT16K33_OSCILATOR_ON>>,
          <<BrightnessCommand(BrightnessCached(15))>> >>

(* __init__: the bus writes it attempts, in order *)
ConstructPayloads(aw) ==
    (IF AutoShow(aw) THEN <<ShowPayload(FillBuffer([k \in 1..BufferLen |-> 0], FALSE))>> ELSE <<>>)
    \o << <<HT16K33_OSCILATOR_ON>>, <<BlinkCommand(BlinkRateCached(0))>>,
          <<BrightnessCommand(BrightnessCached(15))>> >>

Construct ==
    /\ ~constructed
    /\ nops < MaxOps
    /\ \E sz \in Sizes, aw \in BOOLEAN :
       \E failAt \in 0..Len(ConstructPayloads(aw)) :
         LET log == Attempts(ConstructPayloads(aw), failAt) IN
         /\ Deliver(log)
         /\ lastop' = Call("Construct", sz[1], sz[2], aw, 0)
         /\ ret' = <<>>
         /\ IF Failed(log)
            THEN /\ result' = "OSError"
                 /\ UNCHANGED obj
            ELSE /\ result' = "None"
                 /\ constructed' = TRUE
                 /\ size' = sz
                 /\ auto_write' = aw
                 /\ buffer' = FillBuffer([k \in 1..BufferLen |-> 0], FALSE)
                 /\ temp' = BrightnessCommand(BrightnessCached(15))
                 /\ blink_rate' = BlinkRateCached(0)
                 /\ brightness' = BrightnessCached(15)
    /\ nops' = nops + 1

Ready == constructed /\ nops < MaxOps

(* a call that touches neither the object nor the bus *)
Pure(op, res, value) ==
    /\ lastop' = op
    /\ result' = res
    /\ ret' = value
    /\ tx' = <<>>
    /\ UNCHANGED <<obj, chip>>

GetAutoWrite ==
    /\ Ready
    /\ Pure(Call("getAutoWrite", 0, 0, FALSE, 0), BoolStr(auto_write), <<>>)
    /\ nops' = nops + 1

SetAutoWrite ==
    /\ Ready
    /\ \E aw \in BOOLEAN :
         /\ auto_write' = aw
         /\ lastop' = Call("setAutoWrite", 0, 0, aw, 0)
    /\ result' = "None"
    /\ ret' = <<>>
    /\ tx' = <<>>
    /\ UNCHANGED <<constructed, size, buffer, temp, blink_rate, brightness, chip>>
    /\ nops' = nops + 1

GetSize ==
    /\ Ready
    /\ Pure(Call("getSize", 0, 0, FALSE, 0), "tuple", size)
    /\ nops' = nops + 1

GetBlinkRate ==
    /\ Ready
    /\ Pure(Call("getBlinkRate", 0, 0, FALSE, 0), "int", <<blink_rate>>)
    /\ nops' = nops + 1

SetBlinkRate ==
    /\ Ready
    /\ \E rate \in Rates, fail \in BOOLEAN :
         /\ lastop' = Call("setBlinkRate", 0, 0, FALSE, rate)
         /\ IF ~BlinkRateValid(rate)
            THEN /\ result' = "ValueError: rate"
                 /\ tx' = <<>>
                 /\ UNCHANGED <<obj, chip>>
            ELSE LET log == <<BusWrite(<<BlinkCommand(BlinkRateCached(rate))>>, fail)>> IN
                 /\ blink_rate' = BlinkRateCached(rate)
                 /\ temp' = BlinkCommand(BlinkRateCached(rate))
                 /\ Deliver(log)
                 /\ result' = IF Failed(log) THEN "OSError" ELSE "None"
                 /\ UNCHANGED <<constructed, size, auto_write, buffer, brightness>>
    /\ ret' = <<>>
    /\ nops' = nops + 1

GetBrightness ==
    /\ Ready
    /\ Pure(Call("getBrightness", 0, 0, FALSE, 0), "int", <<brightness>>)
    /\ nops' = nops + 1

SetBrightness ==
    /\ Ready
    /\ \E b \in Levels, fail \in BOOLEAN :
         /\ lastop' = Call("setBrightness", 0, 0, FALSE, b)
         /\ IF ~BrightnessValid(b)
            THEN /\ result' = "ValueError: brightness"
                 /\ tx' = <<>>
                 /\ UNCHANGED <<obj, chip>>
            ELSE LET log == <<BusWrite(<<BrightnessCommand(BrightnessCached(b))>>, fail)>> IN
                 /\ brightness' = BrightnessCached(b)
                 /\ temp' = BrightnessCommand(BrightnessCached(b))
                 /\ Deliver(log)
                 /\ result' = IF Failed(log) THEN "OSError" ELSE "None"
                 /\ UNCHANGED <<constructed, size, auto_write, buffer, blink_rate>>
    /\ ret' = <<>>
    /\ nops' = nops + 1

(* show() *)
Show ==
    /\ Ready
    /\ \E fail \in BOOLEAN :
         LET log == <<BusWrite(ShowPayload(buffer), fail)>> IN
         /\ Deliver(log)
         /\ result' = IF Failed(log) THEN "OSError" ELSE "None"
    /\ lastop' = Call("show", 0, 0, FALSE, 0)
    /\ ret' = <<>>
    /\ UNCHANGED obj
    /\ nops' = nops + 1

(* the tail of fill and _pixel: if self._auto_write: self.show() *)
AutoShowLog(aw, buf, fail) ==
    IF AutoShow(aw) THEN <<BusWrite(ShowPayload(buf), fail)>> ELSE <<>>

(* fill(color) *)
Fill ==
    /\ Ready
    /\ \E color \in BOOLEAN, fail \in BOOLEAN :
         LET log == AutoShowLog(auto_write, FillBuffer(buffer, color), fail) IN
         /\ buffer' = FillBuffer(buffer, color)
         /\ Deliver(log)
         /\ result' = IF Failed(log) THEN "OSError" ELSE "None"
         /\ lastop' = Call("fill", 0, 0, color, 0)
    /\ ret' = <<>>
    /\ UNCHANGED <<constructed, size, auto_write, temp, blink_rate, brightness>>
    /\ nops' = nops + 1

(* __getitem__ / _pixel(x, y) *)
GetPixel ==
    /\ Ready
    /\ \E p \in PixelInputs(size[1], size[2]) :
         Pure(Call("getPixel", p[1], p[2], FALSE, 0),
              GetPixelResult(buffer, p[1], p[2], size), <<>>)
    /\ nops' = nops + 1

(* __setitem__ / _pixel(x, y, color) *)
SetPixel ==
    /\ Ready
    /\ \E p \in PixelInputs(size[1], size[2]), color \in BOOLEAN, fail \in BOOLEAN :
         LET x == p[1]
             y == p[2]
             err == PixelError(buffer, x, y, size)
         IN /\ lastop' = Call("setPixel", x, y, color, 0)
            /\ IF err # ""
               THEN /\ result' = err
                    /\ tx' = <<>>
                    /\ UNCHANGED <<buffer, chip>>
               ELSE LET log == AutoShowLog(auto_write, PixelSet(buffer, x, y, color), fail) IN
                    /\ buffer' = PixelSet(buffer, x, y, color)
                    /\ Deliver(log)
                    /\ result' = IF Failed(log) THEN "OSError" ELSE "None"
    /\ ret' = <<>>
    /\ UNCHANGED <<constructed, size, auto_write, temp, blink_rate, brightness>>
    /\ nops' = nops + 1

(* _get_buffer(i) *)
GetBuffer ==
    /\ Ready
    /\ \E i \in BufferIndexes :
         IF InRange(buffer, i + 1)
         THEN Pure(Call("getBuffer", 0, 0, FALSE, i), "int", <<ByteAt(buffer, i + 1)>>)
         ELSE Pure(Call("getBuffer", 0, 0, FALSE, i), "IndexError", <<>>)
    /\ nops' = nops + 1

ByteValid(value) == 0 <= value /\ value <= 255

(* the exceptions a bytearray store can raise for this index and value *)
StoreErrors(buf, k, value) ==
    (IF InRange(buf, k) THEN {} ELSE {"IndexError"})
    \cup (IF ByteValid(value) THEN {} ELSE {"ValueError: byte"})

(* _set_buffer(i, value) *)
SetBuffer ==
    /\ Ready
    /\ \E i \in BufferIndexes, value \in ByteValues :
         /\ lastop' = Call("setBuffer", i, 0, FALSE, value)
         /\ IF StoreErrors(buffer, i + 1, value) = {}
            THEN /\ buffer' = StoreAt(buffer, i + 1, value)
                 /\ result' = "None"
            ELSE /\ result' \in StoreErrors(buffer, i + 1, value)
                 /\ UNCHANGED buffer
    /\ ret' = <<>>
    /\ tx' = <<>>
    /\ UNCHANGED <<constructed, size, auto_write, temp, blink_rate, brightness, chip>>
    /\ nops' = nops + 1

Next ==
    \/ Construct
    \/ GetAutoWrite
    \/ SetAutoWrite
    \/ GetSize
    \/ GetBlinkRate
    \/ SetBlinkRate
    \/ GetBrightness
    \/ SetBrightness
    \/ Show
    \/ Fill
    \/ GetPixel
    \/ SetPixel
    \/ GetBuffer
    \/ SetBuffer

Spec == Init /\ [][Next]_vars

(* ======================= properties ======================= *)

ZeroFrame == [k \in 1..17 |-> 0]

Built == lastop.op = "Construct" /\ result = "None"

FourWrites ==
    /\ Len(tx) = 4
    /\ \A i \in 1..4 : tx[i].ok
    /\ tx[1].payload = ZeroFrame
    /\ tx[2].payload = <<33>>
    /\ tx[3].payload = <<129>>
    /\ tx[4].payload = <<239>>

ThreeCommands ==
    /\ Len(tx) = 3
    /\ \A i \in 1..3 : tx[i].ok
    /\ tx[1].payload = <<33>>
    /\ tx[2].payload = <<129>>
    /\ tx[3].payload = <<239>>

(* C1, as stated: a construction that completes has issued exactly four
   transactions, whatever auto_write is: the 17-byte zero frame, 0x21,
   the blink command for rate 0 and the brightness command for level 15. *)
C1_FourTransactions == Built => FourWrites

(* C1, amended: a construction that completes with auto_write true has
   issued those four transactions in that order; with auto_write false it
   has issued only the three commands, in the same order, and no frame. *)
C1_TransactionsByAutoWrite ==
    Built => IF lastop.c THEN FourWrites ELSE ThreeCommands

C1_Witness == Built /\ ~lastop.c /\ Len(tx) = 3

(* C2: after setPixel(x, y, c) with 0 <= x < width and 0 <= y < height,
   the call has stored the bit and getPixel(x, y) returns c. *)
C2_RoundTrip ==
    (constructed /\ lastop.op = "setPixel"
         /\ 0 <= lastop.x /\ lastop.x < size[1]
         /\ 0 <= lastop.y /\ lastop.y < size[2]
         /\ result # "OSError")
    => /\ result = "None"
       /\ GetPixelResult(buffer, lastop.x, lastop.y, size) = BoolStr(lastop.c)

(* C3: with auto_write false a setPixel performs no bus transaction, and
   a show() performs exactly one, whose payload is the 17-byte buffer with
   byte 0 equal to 0x00. *)
C3_ExplicitShow ==
    (constructed /\ ~auto_write)
    => /\ lastop.op = "setPixel" => tx = <<>>
       /\ lastop.op = "show" =>
            /\ Len(tx) = 1
            /\ Len(tx[1].payload) = 17
            /\ tx[1].payload = buffer
            /\ tx[1].payload[1] = 0

(* C4: the cached blink rate and brightness equal the values carried by
   the last blink and brightness commands the chip accepted. *)
C4_CacheMirrorsChip ==
    constructed => /\ blink_rate = (lastBlinkCmd \div 2) % 4
                   /\ brightness = lastBrightCmd % 16

(* C5: a setter called with an out-of-range value raises the range error,
   changes neither cached setting nor the buffer and attempts no bus
   write; called with an in-range value it caches the value and attempts
   exactly one write of one byte, 0x81 + 2*rate or 0xE0 + level. *)
C5_Setters ==
    [][/\ (lastop'.op = "setBlinkRate" /\ lastop'.v \notin 0..3) =>
            /\ result' = "ValueError: rate"
            /\ blink_rate' = blink_rate /\ brightness' = brightness
            /\ buffer' = buffer /\ tx' = <<>>
       /\ (lastop'.op = "setBlinkRate" /\ lastop'.v \in 0..3) =>
            /\ result' \in {"None", "OSError"}
            /\ blink_rate' = lastop'.v /\ brightness' = brightness
            /\ Len(tx') = 1 /\ tx'[1].payload = <<129 + 2 * lastop'.v>>
       /\ (lastop'.op = "setBrightness" /\ lastop'.v \notin 0..15) =>
            /\ result' = "ValueError: brightness"
            /\ blink_rate' = blink_rate /\ brightness' = brightness
            /\ buffer' = buffer /\ tx' = <<>>
       /\ (lastop'.op = "setBrightness" /\ lastop'.v \in 0..15) =>
            /\ result' \in {"None", "OSError"}
            /\ brightness' = lastop'.v /\ blink_rate' = blink_rate
            /\ Len(tx') = 1 /\ tx'[1].payload = <<224 + lastop'.v>>
      ]_vars

C5_Witness ==
    /\ lastop.op = "setBlinkRate" /\ lastop.v = 4
    /\ result = "ValueError: rate" /\ tx = <<>>

(* C6: getPixel and setPixel raise the X error when x is outside
   [0, width), the Y error when x is valid and y is outside [0, height),
   in both cases without changing the buffer or touching the bus; and
   getPixel(width-1, height-1) returns a value. *)
C6_PixelRange ==
    [][(lastop'.op \in {"getPixel", "setPixel"}) =>
         /\ ~(0 <= lastop'.x /\ lastop'.x < size[1]) =>
              (result' = "ValueError: X" /\ buffer' = buffer /\ tx' = <<>>)
         /\ ((0 <= lastop'.x /\ lastop'.x < size[1])
                /\ ~(0 <= lastop'.y /\ lastop'.y < size[2])) =>
              (result' = "ValueError: Y" /\ buffer' = buffer /\ tx' = <<>>)
         /\ (lastop'.op = "getPixel" /\ lastop'.x = size[1] - 1
                /\ lastop'.y = size[2] - 1) =>
              result' \in {"True", "False"}
      ]_vars

(* C7: with auto_write true, a setPixel or fill that returns normally has
   performed exactly one bus transaction, whose payload is the 17-byte
   buffer as the call left it; the chip's last frame is then the buffer. *)
C7_AutoWrite ==
    (constructed /\ auto_write /\ lastop.op \in {"setPixel", "fill"}
         /\ result = "None")
    => /\ Len(tx) = 1
       /\ tx[1].ok
       /\ Len(tx[1].payload) = 17
       /\ tx[1].payload = buffer
       /\ lastFrame = buffer

C7_Witness ==
    /\ constructed /\ auto_write /\ lastop.op = "setPixel" /\ result = "None"
    /\ lastop.c /\ buffer # ZeroFrame /\ lastFrame = buffer

(* C8: fill(color) sets buffer bytes 1..16 to 0xFF or 0x00 and leaves
   byte 0 alone, and afterwards getPixel(x, y) returns color for every
   0 <= x < width, 0 <= y < height. *)
C8_Fill ==
    [][(lastop'.op = "fill") =>
         /\ \A k \in 2..17 : buffer'[k] = IF lastop'.c THEN 255 ELSE 0
         /\ buffer'[1] = buffer[1]
         /\ \A x \in 0..(size[1] - 1), y \in 0..(size[2] - 1) :
              GetPixelResult(buffer', x, y, size) = BoolStr(lastop'.c)
      ]_vars

(* C9: for the size the controller was constructed with, every valid
   (x, y) has addr in 0..15 and no two distinct valid pixels share both
   addr and bit position. *)
C9_AddressMap ==
    Built =>
      \A x1 \in 0..(size[1] - 1), y1 \in 0..(size[2] - 1) :
        /\ Addr(x1, y1) \in 0..15
        /\ \A x2 \in 0..(size[1] - 1), y2 \in 0..(size[2] - 1) :
             (<<x1, y1>> # <<x2, y2>> /\ Addr(x1, y1) = Addr(x2, y2))
               => (x1 % 8) # (x2 % 8)

(* C10: the buffer always has 17 bytes and byte 0 is 0x00. *)
C10_BufferShape == constructed => (Len(buffer) = 17 /\ buffer[1] = 0)

====
